---- MODULE Spec2Model ----
(***************************************************************************)
(* A model of claude-cli (src/src/main.rs): the config store               *)
(* (Config::new / save / set_key), the API client (send_message) and the   *)
(* interactive loop of main.                                               *)
(*                                                                         *)
(* Text that the program converts (the config file, the key, the lines     *)
(* read from standard input) is a sequence of one-character strings, so    *)
(* that JSON escaping, JSON parsing and trimming are computed character by *)
(* character.  Text that is only passed along (response texts, messages    *)
(* printed) is a TLA+ string.                                              *)
(*                                                                         *)
(* Output: println! is modelled as succeeding (a broken standard output    *)
(* is seen by the model only at the explicit flush of line 144).           *)
(***************************************************************************)
EXTENDS Integers, Sequences, FiniteSets, TLC

VARIABLES
    configDir,   \* TRUE iff dirs::config_dir() yields a directory
    file,        \* <config_dir>/claude-cli/config.json: [kind, text]
    meaning,     \* ghost: what the file holds ("absent", "unreadable", "corrupt", or [key |-> k])
    lastSet,     \* ghost: the key of the last successful set_key, or None
    run,         \* number of processes started so far
    pc,          \* position of the current process in main
    command,     \* cli.command of the current process
    config,      \* the Config value of the current process: [api_key]
    loopState,   \* "NotEntered", "Running", "Terminated", "Aborted"
    exit,        \* "none", "success", "failure" (main returned Err), "panic"
    cause,       \* why the process ended
    eof,         \* standard input of the current process is exhausted
    input,       \* the line last read (untrimmed)
    prompts,     \* prompts printed by the current process
    reads,       \* lines read by the current process (read_line calls that returned Ok)
    chatInputs,  \* ghost: the chat lines read by the current process (untrimmed)
    requests,    \* the API requests sent by the current process
    response,    \* what came back for the last request: [kind, body]
    result,      \* what send_message did last: [kind, text]
    printed,     \* the lines written to standard output by the last step
    logged       \* the lines written to standard error by the last step

vars == <<configDir, file, meaning, lastSet, run, pc, command, config, loopState,
          exit, cause, eof, input, prompts, reads, chatInputs, requests,
          response, result, printed, logged>>

(***************************************************************************)
(* Bounds of the model.                                                    *)
(***************************************************************************)
MaxRuns == 2
MaxReads == 3
MaxKeyLen == 2

\* Option<T>: None is the empty sequence, Some(x) the one-element sequence
None == <<>>
Some(x) == <<x>>
Unwrap(o) == o[1]

(***************************************************************************)
(* Characters.                                                             *)
(***************************************************************************)
Q == "\""
BS == "\\"
NL == "\n"
TAB == "\t"
CR == "\r"
SP == " "

\* char::is_whitespace, restricted to the characters of the model
WhiteSpace == {SP, TAB, NL, CR}

\* the characters a JSON string may not hold unescaped
ControlChars == {NL, TAB, CR}

(***************************************************************************)
(* str::trim (line 148): drop leading and trailing whitespace.             *)
(***************************************************************************)
RECURSIVE TrimStart(_)
TrimStart(s) ==
    IF s = <<>> THEN <<>>
    ELSE IF Head(s) \in WhiteSpace THEN TrimStart(Tail(s))
    ELSE s

RECURSIVE TrimEnd(_)
TrimEnd(s) ==
    IF s = <<>> THEN <<>>
    ELSE IF s[Len(s)] \in WhiteSpace THEN TrimEnd(SubSeq(s, 1, Len(s) - 1))
    ELSE s

Trim(s) == TrimEnd(TrimStart(s))

(***************************************************************************)
(* serde_json::to_string of the HashMap built by Config::save.             *)
(***************************************************************************)
ApiKeyName == <<"a", "p", "i", "_", "k", "e", "y">>

\* a serializer that writes every character as it is
NoEscape(c) == <<c>>

\* serde_json's string escaping of one character
EscapeChar(c) ==
    IF c = Q THEN <<BS, Q>>
    ELSE IF c = BS THEN <<BS, BS>>
    ELSE IF c = NL THEN <<BS, "n">>
    ELSE IF c = TAB THEN <<BS, "t">>
    ELSE IF c = CR THEN <<BS, "r">>
    ELSE <<c>>

RECURSIVE EscapeString(_)
EscapeString(s) ==
    IF s = <<>> THEN <<>> ELSE EscapeChar(Head(s)) \o EscapeString(Tail(s))

JsonString(s) == <<Q>> \o EscapeString(s) \o <<Q>>

\* the JSON text of the map {"api_key": key}, or of the empty map when key is None
Serialize(api_key) ==
    IF api_key = None THEN <<"{", "}">>
    ELSE <<"{">> \o JsonString(ApiKeyName) \o <<":">>
             \o JsonString(Unwrap(api_key)) \o <<"}">>

(***************************************************************************)
(* serde_json::from_str::<HashMap<String, String>>: a JSON object whose    *)
(* members are all strings; anything else is a parse error.  The result is *)
(* [ok |-> FALSE] or [ok |-> TRUE, map |-> function from keys to values].  *)
(***************************************************************************)
ParseFail == [ok |-> FALSE]

RECURSIVE SkipWs(_, _)
SkipWs(s, i) ==
    IF i <= Len(s) /\ s[i] \in WhiteSpace THEN SkipWs(s, i + 1) ELSE i

\* the character an escape sequence \c stands for (\b, \f and \uXXXX are outside the model's alphabet)
Unescape(c) ==
    IF c = "n" THEN NL
    ELSE IF c = "t" THEN TAB
    ELSE IF c = "r" THEN CR
    ELSE c

EscapeLetters == {Q, BS, "/", "n", "t", "r"}

\* the characters of a string from position i (after the opening quote) to its closing quote
RECURSIVE ParseChars(_, _, _)
ParseChars(s, i, acc) ==
    IF i > Len(s) THEN ParseFail
    ELSE IF s[i] = Q THEN [ok |-> TRUE, val |-> acc, next |-> i + 1]
    ELSE IF s[i] = BS THEN
        IF i + 1 <= Len(s) /\ s[i + 1] \in EscapeLetters
        THEN ParseChars(s, i + 2, Append(acc, Unescape(s[i + 1])))
        ELSE ParseFail
    ELSE IF s[i] \in ControlChars THEN ParseFail
    ELSE ParseChars(s, i + 1, Append(acc, s[i]))

ParseString(s, i) ==
    IF i <= Len(s) /\ s[i] = Q THEN ParseChars(s, i + 1, <<>>) ELSE ParseFail

\* insert into a map; a repeated key keeps the later value
Insert(map, k, v) ==
    [x \in (DOMAIN map) \cup {k} |-> IF x = k THEN v ELSE map[x]]

EmptyMap == [x \in {} |-> <<>>]

\* only whitespace may follow the value
ParseEnd(s, i, map) ==
    IF SkipWs(s, i) > Len(s) THEN [ok |-> TRUE, map |-> map] ELSE ParseFail

\* the members of an object from position i, which holds the opening quote of a key
RECURSIVE ParseMembers(_, _, _)
ParseMembers(s, i, map) ==
    LET k == ParseString(s, i) IN
    IF ~k.ok THEN ParseFail
    ELSE
      LET c == SkipWs(s, k.next) IN
      IF ~(c <= Len(s) /\ s[c] = ":") THEN ParseFail
      ELSE
        LET v == ParseString(s, SkipWs(s, c + 1)) IN
        IF ~v.ok THEN ParseFail
        ELSE
          LET e == SkipWs(s, v.next)
              m == Insert(map, k.val, v.val)
          IN
          IF e > Len(s) THEN ParseFail
          ELSE IF s[e] = "}" THEN ParseEnd(s, e + 1, m)
          ELSE IF s[e] = "," THEN ParseMembers(s, SkipWs(s, e + 1), m)
          ELSE ParseFail

ParseMap(s) ==
    LET i == SkipWs(s, 1) IN
    IF ~(i <= Len(s) /\ s[i] = "{") THEN ParseFail
    ELSE
      LET j == SkipWs(s, i + 1) IN
      IF j <= Len(s) /\ s[j] = "}" THEN ParseEnd(s, j + 1, EmptyMap)
      ELSE ParseMembers(s, j, EmptyMap)

\* Result::unwrap_or_default (line 43): a parse error becomes the empty map
UnwrapOrDefault(r) == IF r.ok THEN r.map ELSE EmptyMap

\* HashMap::get("api_key").cloned() (line 45)
GetApiKey(map) == IF ApiKeyName \in DOMAIN map THEN Some(map[ApiKeyName]) ELSE None

(***************************************************************************)
(* The config store.                                                       *)
(***************************************************************************)
Absent == [kind |-> "absent", text |-> <<>>]
Unreadable == [kind |-> "unreadable", text |-> <<>>]
Text(t) == [kind |-> "text", text |-> t]

\* a load that reports an unreadable or unparsable file as an error
ConfigNewStrict(dirOk, f) ==
    IF ~dirOk \/ f.kind = "unreadable" THEN [ok |-> FALSE, api_key |-> None]
    ELSE IF f.kind = "text"
    THEN [ok |-> ParseMap(f.text).ok, api_key |-> GetApiKey(UnwrapOrDefault(ParseMap(f.text)))]
    ELSE [ok |-> TRUE, api_key |-> None]

\* Config::new (lines 36-54) on a file system state: an error, or a Config
ConfigNew(dirOk, f) ==
    IF ~dirOk THEN [ok |-> FALSE, api_key |-> None]
    ELSE IF f.kind = "text"
    THEN [ok |-> TRUE, api_key |-> GetApiKey(UnwrapOrDefault(ParseMap(f.text)))]
    ELSE [ok |-> TRUE, api_key |-> None]

\* what Config::save (lines 56-69) writes for a Config
SaveText(cfg) == Serialize(cfg.api_key)

\* the ways create_dir_all and fs::write can end
SaveOutcomes == {"ok", "mkdir_failed", "create_failed", "write_failed"}

(***************************************************************************)
(* The API client.  A response body is [raw, content, error]: content is   *)
(* Some(sequence of texts) iff the body deserializes as ClaudeApiResponse, *)
(* error is Some(message) iff it deserializes as ClaudeApiError.           *)
(***************************************************************************)
Model == "claude-3-5-sonnet-20241022"
MaxTokens == 1024

\* a request built with its two arguments in each other's place
BuildRequestSwapped(api_key, content) ==
    [api_key |-> content, model |-> Model, max_tokens |-> MaxTokens,
     messages |-> << [role |-> "user", content |-> api_key] >>]

\* the request built at lines 79-86
BuildRequest(api_key, content) ==
    [api_key |-> api_key, model |-> Model, max_tokens |-> MaxTokens,
     messages |-> << [role |-> "user", content |-> content] >>]

ParsesAsResponse(b) == b.content /= None
ParsesAsError(b) == b.error /= None

Ok(t) == [kind |-> "ok", text |-> t]
Err(t) == [kind |-> "err", text |-> t]
Panicked == [kind |-> "panic", text |-> "index out of bounds"]
NoResult == [kind |-> "none", text |-> ""]

TransportError == "error sending request"
UnknownFormat == "Unknown error format. Response printed to terminal."

\* response.content[0].text.clone() (line 101): indexing an empty Vec panics
FirstText(content) ==
    IF Len(content) = 0 THEN Panicked ELSE Ok(content[1])

\* the value of send_message (lines 88-107) for what the network gave back
SendResult(resp) ==
    IF resp.kind /= "body" THEN Err(TransportError)
    ELSE IF ParsesAsResponse(resp.body) THEN FirstText(Unwrap(resp.body.content))
    ELSE IF ParsesAsError(resp.body) THEN Err(Unwrap(resp.body.error))
    ELSE Err(UnknownFormat)

\* what send_message writes to standard error (line 105)
SendLog(resp) ==
    IF resp.kind = "body" /\ ~ParsesAsResponse(resp.body) /\ ~ParsesAsError(resp.body)
    THEN << <<"Unrecognized response format: ", resp.body.raw>> >>
    ELSE <<>>

NoResponse == [kind |-> "none"]

Bodies ==
    { [raw |-> "<html>", content |-> None, error |-> None],
      [raw |-> "{}", content |-> None, error |-> None],
      [raw |-> "{content:[{text:hi}]}", content |-> Some(<<"hi">>), error |-> None],
      [raw |-> "{content:[{text:a},{text:b}]}", content |-> Some(<<"a", "b">>), error |-> None],
      [raw |-> "{content:[]}", content |-> Some(<<>>), error |-> None],
      [raw |-> "{error:{message:bad key}}", content |-> None, error |-> Some("bad key")],
      [raw |-> "{content:[{text:hi}],error:{message:m}}", content |-> Some(<<"hi">>), error |-> Some("m")],
      [raw |-> "{content:7,error:{message:m}}", content |-> None, error |-> Some("m")] }

\* line 95 fails, line 97 fails, or a body arrives
Responses ==
    { [kind |-> "send_failed"], [kind |-> "body_failed"] }
    \cup { [kind |-> "body", body |-> b] : b \in Bodies }

(***************************************************************************)
(* What main prints (ASCII stands in for the two emoji markers).           *)
(***************************************************************************)
SetKeyMessage == << "API key has been set successfully." >>

StatusLines ==
    << "Available commands:",
       "  setkey <key>    Set your Claude API key",
       "  status          Show this status message",
       "",
       "In chat mode:",
       "  /quit           Exit the program",
       "  /help           Show help message" >>

NoKeyMessage ==
    << "No API key found. Please set your API key using: claude-cli setkey <your-api-key>" >>

Banner == << "Claude CLI started. Type /quit to exit, /help for commands." >>

PromptMarker == "(human) "
BotMarker == "(robot) "
ErrorMarker == "Error: "

\* a /help arm without its heading
HelpLinesNoHeading ==
    << "  /quit           Exit the program",
       "  /help           Show this help message" >>

\* the println! calls of the /help arm (lines 153-155)
HelpLines ==
    << "Available commands:",
       "  /quit           Exit the program",
       "  /help           Show this help message" >>

\* the match on the send_message result (lines 160-167)
ResultLine(r) ==
    IF r.kind = "ok" THEN << <<BotMarker, r.text>> >>
    ELSE IF r.kind = "err" THEN << <<ErrorMarker, r.text>> >>
    ELSE <<>>

(***************************************************************************)
(* The inputs of the model.                                                *)
(***************************************************************************)
KeyAlphabet == {"k", Q, BS}

RECURSIVE SeqsUpTo(_, _)
SeqsUpTo(A, n) ==
    IF n = 0 THEN {<<>>}
    ELSE LET shorter == SeqsUpTo(A, n - 1)
         IN shorter \cup {Append(t, a) : t \in shorter, a \in A}

\* the keys given to setkey
Keys == SeqsUpTo(KeyAlphabet, MaxKeyLen)

Commands ==
    { [kind |-> "none"], [kind |-> "status"] }
    \cup { [kind |-> "setkey", key |-> k] : k \in Keys }

QuitCmd == <<"/", "q", "u", "i", "t">>
HelpCmd == <<"/", "h", "e", "l", "p">>

\* what read_line can put into the buffer; the empty line is end of input
LineInputs ==
    { <<>>,
      <<NL>>,
      <<SP, TAB, CR, NL>>,
      QuitCmd \o <<NL>>,
      <<SP>> \o QuitCmd \o <<SP, CR, NL>>,
      HelpCmd \o <<NL>>,
      <<TAB>> \o HelpCmd \o <<SP, NL>>,
      <<"h", "i", NL>>,
      <<SP, "a", SP, "b", SP, NL>> }

\* the config file before the first process, with what it holds
QuotedName == <<Q>> \o ApiKeyName \o <<Q>>

PriorFiles ==
    { [file |-> Absent, meaning |-> [kind |-> "absent"]],
      [file |-> Unreadable, meaning |-> [kind |-> "unreadable"]],
      [file |-> Text(<<>>), meaning |-> [kind |-> "corrupt"]],
      [file |-> Text(<<"{", Q, "a">>), meaning |-> [kind |-> "corrupt"]],
      [file |-> Text(<<"{">> \o QuotedName \o <<":", "1", "}">>),
       meaning |-> [kind |-> "corrupt"]],
      [file |-> Text(<<"{">> \o QuotedName \o <<":", Q, "o", "l", "d", Q, "}">>),
       meaning |-> [kind |-> "map", key |-> Some(<<"o", "l", "d">>)]],
      [file |-> Text(<<"{", Q, "x", Q, ":", Q, "y", Q, "}">>),
       meaning |-> [kind |-> "map", key |-> None]],
      [file |-> Text(<<SP, "{", SP, Q, "x", Q, ":", Q, "y", Q, SP, ",", NL>>
                     \o QuotedName \o <<SP, ":", TAB, Q, "a", BS, Q, "b", Q, "}", NL>>),
       meaning |-> [kind |-> "map", key |-> Some(<<"a", Q, "b">>)]] }

(***************************************************************************)
(* The state machine.                                                      *)
(***************************************************************************)
fsVars == <<configDir, file, meaning, lastSet>>
loopVars == <<eof, input, prompts, reads, chatInputs>>
netVars == <<requests, response, result>>

Init ==
    /\ configDir \in BOOLEAN
    /\ \E p \in PriorFiles :
         /\ configDir \/ p.file = Absent
         /\ file = p.file
         /\ meaning = p.meaning
    /\ lastSet = None
    /\ run = 0
    /\ pc = "idle"
    /\ command = [kind |-> "none"]
    /\ config = [api_key |-> None]
    /\ loopState = "NotEntered"
    /\ exit = "none"
    /\ cause = "none"
    /\ eof = FALSE
    /\ input = <<>>
    /\ prompts = 0
    /\ reads = 0
    /\ chatInputs = <<>>
    /\ requests = <<>>
    /\ response = NoResponse
    /\ result = NoResult
    /\ printed = <<>>
    /\ logged = <<>>

\* main returns, or the process dies
Exit(code, why) ==
    /\ pc' = "exited"
    /\ exit' = code
    /\ cause' = why

\* the shell starts the program: Cli::parse (line 112)
Exec(cmd) ==
    /\ pc \in {"idle", "exited"}
    /\ run < MaxRuns
    /\ run' = run + 1
    /\ pc' = "start"
    /\ command' = cmd
    /\ config' = [api_key |-> None]
    /\ loopState' = "NotEntered"
    /\ exit' = "none"
    /\ cause' = "none"
    /\ eof' = FALSE
    /\ input' = <<>>
    /\ prompts' = 0
    /\ reads' = 0
    /\ chatInputs' = <<>>
    /\ requests' = <<>>
    /\ response' = NoResponse
    /\ result' = NoResult
    /\ printed' = <<>>
    /\ logged' = <<>>
    /\ UNCHANGED fsVars

\* Config::new()? succeeds (line 113)
LoadConfig ==
    /\ pc = "start"
    /\ ConfigNew(configDir, file).ok
    /\ config' = [api_key |-> ConfigNew(configDir, file).api_key]
    /\ pc' = "loaded"
    /\ printed' = <<>>
    /\ logged' = <<>>
    /\ UNCHANGED <<fsVars, run, command, loopState, exit, cause, loopVars, netVars>>

\* Config::new()? fails and main returns the error (line 113)
LoadConfigFail ==
    /\ pc = "start"
    /\ ~ConfigNew(configDir, file).ok
    /\ Exit("failure", "config_dir")
    /\ printed' = <<>>
    /\ logged' = << <<ErrorMarker, "Could not find config directory">> >>
    /\ UNCHANGED <<fsVars, run, command, config, loopState, loopVars, netVars>>

\* the setkey command (lines 116-120): set_key replaces the key, then saves
SetKey(outcome) ==
    /\ pc = "loaded"
    /\ command.kind = "setkey"
    /\ config' = [api_key |-> Some(command.key)]
    /\ IF outcome = "ok" THEN
          /\ file' = Text(SaveText(config'))
          /\ meaning' = [kind |-> "map", key |-> Some(command.key)]
          /\ lastSet' = Some(command.key)
          /\ printed' = SetKeyMessage
          /\ logged' = <<>>
          /\ Exit("success", "setkey")
       ELSE
          /\ IF outcome = "write_failed"
             THEN /\ file' = Text(<<>>)
                  /\ meaning' = [kind |-> "corrupt"]
                  /\ lastSet' = None
             ELSE UNCHANGED <<file, meaning, lastSet>>
          /\ printed' = <<>>
          /\ logged' = << <<ErrorMarker, outcome>> >>
          /\ Exit("failure", "io_error")
    /\ UNCHANGED <<configDir, run, command, loopState, loopVars, netVars>>

\* the status command (lines 121-129)
Status ==
    /\ pc = "loaded"
    /\ command.kind = "status"
    /\ printed' = StatusLines
    /\ logged' = <<>>
    /\ Exit("success", "status")
    /\ UNCHANGED <<fsVars, run, command, config, loopState, loopVars, netVars>>

\* the key check left out
KeyMissingNever(cfg) == FALSE

\* config.api_key.is_none() (line 133)
KeyMissing(cfg) == cfg.api_key = None

\* no subcommand and no key (lines 133-138)
NoKey ==
    /\ pc = "loaded"
    /\ command.kind = "none"
    /\ KeyMissing(config)
    /\ printed' = NoKeyMessage
    /\ logged' = <<>>
    /\ Exit("success", "no_key")
    /\ UNCHANGED <<fsVars, run, command, config, loopState, loopVars, netVars>>

\* no subcommand and a key: the banner, then the loop (line 140)
EnterLoop ==
    /\ pc = "loaded"
    /\ command.kind = "none"
    /\ ~KeyMissing(config)
    /\ printed' = Banner
    /\ logged' = <<>>
    /\ loopState' = "Running"
    /\ pc' = "prompt"
    /\ UNCHANGED <<fsVars, run, command, config, exit, cause, loopVars, netVars>>

\* the prompt is printed and flushed (lines 143-146); input is a fresh buffer
Prompt ==
    /\ pc = "prompt"
    /\ reads < MaxReads
    /\ prompts' = prompts + 1
    /\ printed' = <<PromptMarker>>
    /\ logged' = <<>>
    /\ input' = <<>>
    /\ response' = NoResponse
    /\ result' = NoResult
    /\ pc' = "read"
    /\ UNCHANGED <<fsVars, run, command, config, loopState, exit, cause, eof, reads,
                   chatInputs, requests>>

\* the flush fails and main returns the error (line 144)
FlushFail ==
    /\ pc = "prompt"
    /\ reads < MaxReads
    /\ printed' = <<>>
    /\ logged' = << <<ErrorMarker, "flush">> >>
    /\ loopState' = "Aborted"
    /\ Exit("failure", "io_error")
    /\ UNCHANGED <<fsVars, run, command, config, loopVars, netVars>>

\* read_line fails and main returns the error (line 147)
ReadFail ==
    /\ pc = "read"
    /\ printed' = <<>>
    /\ logged' = << <<ErrorMarker, "read">> >>
    /\ loopState' = "Aborted"
    /\ Exit("failure", "io_error")
    /\ UNCHANGED <<fsVars, run, command, config, loopVars, netVars>>

\* what read_line can return now: after end of input, only end of input
Available == IF eof THEN {<<>>} ELSE LineInputs

\* read_line returned line (line 147): zero bytes, or no newline at the end, is end of input
ReadLine(line) ==
    /\ pc = "read"
    /\ line \in Available
    /\ reads' = reads + 1
    /\ input' = line
    /\ eof' = (line = <<>> \/ line[Len(line)] /= NL)

\* a match without the "/quit" arm
DispatchNoQuit(t) ==
    IF t = HelpCmd THEN "help"
    ELSE IF t = <<>> THEN "empty"
    ELSE "chat"

\* a match without the "" arm
DispatchNoEmpty(t) ==
    IF t = QuitCmd THEN "quit"
    ELSE IF t = HelpCmd THEN "help"
    ELSE "chat"

\* the arm of the match at line 150 that the trimmed input takes
Dispatch(t) ==
    IF t = QuitCmd THEN "quit"
    ELSE IF t = HelpCmd THEN "help"
    ELSE IF t = <<>> THEN "empty"
    ELSE "chat"

\* "/quit" => break, then Ok(()) (lines 151, 172)
ReadQuit ==
    \E line \in LineInputs :
        /\ ReadLine(line)
        /\ Dispatch(Trim(line)) = "quit"
        /\ printed' = <<>>
        /\ logged' = <<>>
        /\ loopState' = "Terminated"
        /\ Exit("success", "quit")
        /\ UNCHANGED <<fsVars, run, command, config, prompts, chatInputs, netVars>>

\* "/help" (lines 152-157)
ReadHelp ==
    \E line \in LineInputs :
        /\ ReadLine(line)
        /\ Dispatch(Trim(line)) = "help"
        /\ printed' = HelpLines
        /\ logged' = <<>>
        /\ pc' = "prompt"
        /\ UNCHANGED <<fsVars, run, command, config, loopState, exit, cause, prompts,
                       chatInputs, netVars>>

\* "" => continue (line 158)
ReadEmpty ==
    \E line \in LineInputs :
        /\ ReadLine(line)
        /\ Dispatch(Trim(line)) = "empty"
        /\ printed' = <<>>
        /\ logged' = <<>>
        /\ pc' = "prompt"
        /\ UNCHANGED <<fsVars, run, command, config, loopState, exit, cause, prompts,
                       chatInputs, netVars>>

\* any other line: config.api_key.as_ref().unwrap(), then send_message is called (line 160)
ReadChat ==
    \E line \in LineInputs :
        /\ ReadLine(line)
        /\ Dispatch(Trim(line)) = "chat"
        /\ chatInputs' = Append(chatInputs, line)
        /\ printed' = <<>>
        /\ IF config.api_key = None
           THEN /\ logged' = << <<"panic: ", "called Option::unwrap() on a None value">> >>
                /\ loopState' = "Aborted"
                /\ Exit("panic", "panic")
           ELSE /\ logged' = <<>>
                /\ pc' = "send"
                /\ UNCHANGED <<loopState, exit, cause>>
        /\ UNCHANGED <<fsVars, run, command, config, prompts, netVars>>

\* send_message (lines 77-108) and the match on its result (lines 160-167)
SendMessage(resp) ==
    /\ pc = "send"
    /\ requests' = Append(requests, BuildRequest(Unwrap(config.api_key), Trim(input)))
    /\ response' = resp
    /\ result' = SendResult(resp)
    /\ printed' = ResultLine(result')
    /\ IF result'.kind = "panic"
       THEN /\ logged' = << <<"panic: ", result'.text>> >>
            /\ loopState' = "Aborted"
            /\ Exit("panic", "panic")
       ELSE /\ logged' = SendLog(resp)
            /\ pc' = "prompt"
            /\ UNCHANGED <<loopState, exit, cause>>
    /\ UNCHANGED <<fsVars, run, command, config, loopVars>>

Next ==
    \/ \E cmd \in Commands : Exec(cmd)
    \/ LoadConfig
    \/ LoadConfigFail
    \/ \E o \in SaveOutcomes : SetKey(o)
    \/ Status
    \/ NoKey
    \/ EnterLoop
    \/ Prompt
    \/ FlushFail
    \/ ReadFail
    \/ ReadQuit
    \/ ReadHelp
    \/ ReadEmpty
    \/ ReadChat
    \/ \E r \in Responses : SendMessage(r)

Spec == Init /\ [][Next]_vars

(***************************************************************************)
(* Vocabulary of the properties, stated without the program's operators.   *)
(***************************************************************************)
AllWhiteSpace(s) == \A i \in 1..Len(s) : s[i] \in WhiteSpace

\* t is line without its leading and trailing whitespace
IsTrimOf(t, line) ==
    /\ t = <<>> \/ (t[1] \notin WhiteSpace /\ t[Len(t)] \notin WhiteSpace)
    /\ \E i \in 0..Len(line) :
          /\ i + Len(t) <= Len(line)
          /\ AllWhiteSpace(SubSeq(line, 1, i))
          /\ SubSeq(line, i + 1, i + Len(t)) = t
          /\ AllWhiteSpace(SubSeq(line, i + Len(t) + 1, Len(line)))

\* a line that is a chat message: not empty after trimming, not /quit, not /help
IsChat(line) ==
    /\ ~AllWhiteSpace(line)
    /\ ~IsTrimOf(QuitCmd, line)
    /\ ~IsTrimOf(HelpCmd, line)

\* this step is a read_line call that returned a line
LineRead == pc = "read" /\ reads' = reads + 1

\* the current process is in the loop
InLoop == pc \in {"prompt", "read", "send"}

(***************************************************************************)
(* C1: whatever the send operation gives back for a chat line (transport   *)
(* failure, error payload, unrecognized payload, success payload with any  *)
(* content sequence), the loop is Running afterwards and at its next       *)
(* prompt.                                                                 *)
(***************************************************************************)
C1_SendKeepsRunning ==
    [][pc = "send" => (loopState' = "Running" /\ pc' = "prompt" /\ exit' = "none")]_vars

(***************************************************************************)
(* C2: with no subcommand and a loaded Config without a key the loop is    *)
(* never entered: no prompt, no line read, no request, and the process     *)
(* ends in success after the instructional message.  Wherever the loop is  *)
(* Running, and wherever send is called, the key is present.               *)
(***************************************************************************)
C2_NoKeyNoLoop ==
    /\ (loopState = "Running" \/ InLoop) => config.api_key /= None
    /\ (/\ command.kind = "none"
        /\ config.api_key = None
        /\ pc = "loaded" \/ (pc = "exited" /\ cause /= "config_dir"))
       => /\ loopState = "NotEntered"
          /\ prompts = 0
          /\ reads = 0
          /\ requests = <<>>
          /\ pc = "exited" =>
                /\ exit = "success"
                /\ printed = << "No API key found. Please set your API key using: claude-cli setkey <your-api-key>" >>

C2_Witness ==
    /\ pc = "exited"
    /\ command.kind = "none"
    /\ cause = "no_key"
    /\ config.api_key = None
    /\ meaning.kind = "map"

(***************************************************************************)
(* C3: every response body gets exactly one of three results, the first    *)
(* that applies: a success payload gives its first content text; otherwise *)
(* an error payload gives the remote message as an error; otherwise the    *)
(* raw body is logged and the generic unknown-format error is given.       *)
(***************************************************************************)
C3_ClassifiedInOrder ==
    [][(pc = "send" /\ response'.kind = "body") =>
        LET b == response'.body IN
        IF b.content /= None
        THEN /\ Len(b.content[1]) > 0
             /\ result' = [kind |-> "ok", text |-> b.content[1][1]]
             /\ logged' = <<>>
        ELSE IF b.error /= None
        THEN /\ result' = [kind |-> "err", text |-> b.error[1]]
             /\ logged' = <<>>
        ELSE /\ result' = [kind |-> "err",
                           text |-> "Unknown error format. Response printed to terminal."]
             /\ logged' = << <<"Unrecognized response format: ", b.raw>> >>
      ]_vars

(***************************************************************************)
(* C4: after a successful set_key(k), whatever the file held before, the   *)
(* next load yields api_key = k.                                           *)
(***************************************************************************)
C4_RoundTrip ==
    (pc = "loaded" /\ lastSet /= None) => config.api_key = lastSet

C4_Witness ==
    /\ pc = "loaded"
    /\ lastSet = << <<Q, BS>> >>
    /\ config.api_key = lastSet

(***************************************************************************)
(* C5: load fails exactly when there is no config directory; otherwise it  *)
(* yields a Config, with no key when the file is absent, unreadable or not *)
(* a string-to-string mapping, and with the file's api_key entry when it   *)
(* is one.                                                                 *)
(***************************************************************************)
C5_LoadDegrades ==
    /\ (pc = "exited" /\ cause = "config_dir") => ~configDir
    /\ (~configDir /\ pc \notin {"idle", "start"}) =>
           (pc = "exited" /\ cause = "config_dir" /\ exit = "failure")
    /\ pc = "loaded" =>
           config.api_key = (IF meaning.kind = "map" THEN meaning.key ELSE None)

C5_Witness ==
    /\ pc = "loaded"
    /\ meaning.kind = "corrupt"
    /\ file.kind = "text"
    /\ file.text /= <<>>
    /\ config.api_key = None

(***************************************************************************)
(* C6: reading a line that trims to /quit ends the loop: the loop is       *)
(* Terminated and the process has returned success, and while the loop is  *)
(* Terminated that process prints no prompt, reads no line and sends no    *)
(* request.                                                                *)
(***************************************************************************)
C6_QuitTerminates ==
    [][/\ (LineRead /\ IsTrimOf(QuitCmd, input')) =>
            /\ loopState' = "Terminated"
            /\ pc' = "exited"
            /\ exit' = "success"
            /\ printed' = <<>>
            /\ prompts' = prompts
            /\ requests' = requests
       /\ (loopState = "Terminated" /\ run' = run) =>
            UNCHANGED <<loopState, pc, exit, prompts, reads, requests, printed>>
      ]_vars

C6_Witness ==
    /\ loopState = "Terminated"
    /\ pc = "exited"
    /\ exit = "success"
    /\ input = <<SP>> \o QuitCmd \o <<SP, CR, NL>>
    /\ reads = 2

(***************************************************************************)
(* C7 as stated: /help prints exactly two lines, the one for /quit and the *)
(* one for /help, sends no request and leaves the loop Running.            *)
(***************************************************************************)
C7_HelpTwoLines ==
    [][(LineRead /\ IsTrimOf(HelpCmd, input')) =>
            /\ printed' = << "  /quit           Exit the program",
                             "  /help           Show this help message" >>
            /\ requests' = requests
            /\ loopState' = "Running"
      ]_vars

(***************************************************************************)
(* C7 amended: /help prints exactly three lines, the heading "Available    *)
(* commands:" and then the one for /quit and the one for /help, sends no   *)
(* request and leaves the loop Running, at its next prompt.                *)
(***************************************************************************)
C7_HelpThreeLines ==
    [][(LineRead /\ IsTrimOf(HelpCmd, input')) =>
            /\ printed' = << "Available commands:",
                             "  /quit           Exit the program",
                             "  /help           Show this help message" >>
            /\ requests' = requests
            /\ loopState' = "Running"
            /\ pc' = "prompt"
      ]_vars

C7_Witness ==
    /\ pc = "prompt"
    /\ loopState = "Running"
    /\ input = <<TAB>> \o HelpCmd \o <<SP, NL>>
    /\ Len(printed) = 3

(***************************************************************************)
(* C8: a line that is empty after trimming (whitespace only, or nothing)   *)
(* gives no output and no request, changes neither the Config nor the      *)
(* config file, and leaves the loop Running, at its next prompt.           *)
(***************************************************************************)
C8_EmptyLineNoEffect ==
    [][(LineRead /\ AllWhiteSpace(input')) =>
            /\ printed' = <<>>
            /\ logged' = <<>>
            /\ requests' = requests
            /\ chatInputs' = chatInputs
            /\ loopState' = "Running"
            /\ pc' = "prompt"
            /\ UNCHANGED <<config, file, exit, cause, prompts, response, result>>
      ]_vars

C8_Witness ==
    /\ pc = "prompt"
    /\ loopState = "Running"
    /\ reads = 1
    /\ input = <<SP, TAB, CR, NL>>
    /\ printed = <<>>
    /\ requests = <<>>

(***************************************************************************)
(* C9: every chat line read causes exactly one request, built from that    *)
(* line alone: one message, of role "user", whose content is the trimmed   *)
(* line, sent with the stored key.  Other lines cause none, nothing is     *)
(* sent twice, and the requests sent are as many as the chat lines read.   *)
(***************************************************************************)
C9_OneRequestPerChatLine ==
    [][/\ LineRead =>
            /\ requests' = requests
            /\ IF IsChat(input')
               THEN chatInputs' = Append(chatInputs, input') /\ pc' = "send"
               ELSE chatInputs' = chatInputs /\ pc' /= "send"
       /\ pc = "send" =>
            /\ pc' /= "send"
            /\ Len(requests') = Len(requests) + 1
            /\ SubSeq(requests', 1, Len(requests)) = requests
            /\ LET r == requests'[Len(requests')] IN
                 /\ r.api_key = config.api_key[1]
                 /\ Len(r.messages) = 1
                 /\ r.messages[1].role = "user"
                 /\ IsTrimOf(r.messages[1].content, input)
       /\ (pc \notin {"read", "send"} /\ run' = run) =>
            (requests' = requests /\ chatInputs' = chatInputs)
       /\ Len(requests') = Len(chatInputs') - (IF pc' = "send" THEN 1 ELSE 0)
      ]_vars

C9_Witness ==
    /\ pc = "prompt"
    /\ Len(requests) = 2
    /\ Len(chatInputs) = 2
    /\ requests[1].messages[1].content = <<"a", SP, "b">>
    /\ requests[2].messages[1].content = <<"h", "i">>
    /\ result.kind = "err"

(***************************************************************************)
(* C10: the loop leaves Running only by reading a line that trims to /quit *)
(* (the process returns success) or by a failed read or flush (the process *)
(* returns failure).  End of input is neither: it is handled as an empty   *)
(* line, and the loop stays Running and returns to its prompt.             *)
(***************************************************************************)
C10_LeavesRunningOnlyByQuitOrIoError ==
    [][/\ (loopState = "Running" /\ loopState' /= "Running") =>
            \/ LineRead /\ IsTrimOf(QuitCmd, input') /\ loopState' = "Terminated"
                        /\ exit' = "success"
            \/ cause' = "io_error" /\ exit' = "failure"
       /\ (LineRead /\ input' = <<>>) =>
            (loopState' = "Running" /\ pc' = "prompt" /\ eof')
       /\ (eof /\ loopState = "Running") => loopState' /= "Terminated"
      ]_vars

\* the part of C10 about end of input, which holds of the program
EndOfInputKeepsRunning ==
    [][/\ (LineRead /\ input' = <<>>) =>
            (loopState' = "Running" /\ pc' = "prompt" /\ eof')
       /\ (eof /\ LineRead) => input' = <<>>
       /\ (eof /\ loopState = "Running") => loopState' /= "Terminated"
      ]_vars

====
